---- MODULE Spec2Model ----
(***************************************************************************)
(* A model of the clean_ais pipeline of src/import_ais_data.py.            *)
(*                                                                         *)
(* A data frame is a sequence of rows (records).  Positions are cells of   *)
(* a one-dimensional chart: the great-circle distance between two cells    *)
(* is the absolute difference of their numbers, in km.  The columns long   *)
(* and cog are carried by the code exactly as lat and sog are and are not  *)
(* repeated.  An attribute that is None in Python is the empty sequence,   *)
(* a defined one the one-element sequence holding its value.               *)
(***************************************************************************)
EXTENDS Integers, Sequences, FiniteSets, TLC

VARIABLES ais_data, ports, polygon, routes, interpolated_routes, waypoints,
          waypoint_amount, last, _conn, _counter

vars == <<ais_data, ports, polygon, routes, interpolated_routes, waypoints,
          waypoint_amount, last, _conn, _counter>>

\* the fields of the Database object
database == <<_conn, _counter>>

None == <<>>
Some(x) == <<x>>

(***************************************************************************)
(* Bounds of the model and constants of the program.                       *)
(***************************************************************************)
\* longest block sequence of the enumerated single-ship inputs
MaxBlocks == 5
\* seconds between two consecutive pings of a ship in the generated inputs
Step == 600
\* "Remove routes where there is less then 10 points"
MinPoints == 10
\* seconds of a day (the anchor of pandas' resample and of dt.floor('d'))
Day == 86400

(***************************************************************************)
(* Generic helpers.                                                        *)
(***************************************************************************)
Abs(x) == IF x < 0 THEN -x ELSE x

Range(s) == {s[i] : i \in DOMAIN s}

SetMin(S) == CHOOSE x \in S : \A y \in S : x <= y

SetMax(S) == CHOOSE x \in S : \A y \in S : y <= x

\* the rows lo..hi of s whose index is in K, in order (by halves)
RECURSIVE SelectRange(_, _, _, _)
SelectRange(s, K, lo, hi) ==
  IF lo > hi THEN <<>>
  ELSE IF lo = hi THEN (IF lo \in K THEN <<s[lo]>> ELSE <<>>)
  ELSE LET mid == (lo + hi) \div 2
       IN  SelectRange(s, K, lo, mid) \o SelectRange(s, K, mid + 1, hi)

\* the rows of s whose index is in K, in order
SelectIdx(s, K) == SelectRange(s, K, 1, Len(s))

\* the integers of lo..hi that are in K, in increasing order
RECURSIVE SortedRange(_, _, _)
SortedRange(K, lo, hi) ==
  IF lo > hi THEN <<>>
  ELSE IF lo = hi THEN (IF lo \in K THEN <<lo>> ELSE <<>>)
  ELSE LET mid == (lo + hi) \div 2
       IN  SortedRange(K, lo, mid) \o SortedRange(K, mid + 1, hi)

RECURSIVE Concat(_)
Concat(ss) == IF ss = <<>> THEN <<>> ELSE Head(ss) \o Concat(Tail(ss))

(***************************************************************************)
(* Exact arithmetic for the float columns: a value is <<num, den>> in      *)
(* lowest terms, den > 0.                                                  *)
(***************************************************************************)
RECURSIVE Gcd(_, _)
Gcd(a, b) == IF b = 0 THEN a ELSE Gcd(b, a % b)

Rat(n, d) ==
  LET g == Gcd(Abs(n), Abs(d))
      sgn == IF d < 0 THEN -1 ELSE 1
  IN  <<sgn * (n \div g), sgn * (d \div g)>>

RInt(n) == <<n, 1>>
RAdd(x, y) == Rat(x[1] * y[2] + y[1] * x[2], x[2] * y[2])
RSub(x, y) == Rat(x[1] * y[2] - y[1] * x[2], x[2] * y[2])
RScale(x, n, d) == Rat(x[1] * n, x[2] * d)
RLess(x, y) == x[1] * y[2] < y[1] * x[2]
RLeq(x, y) == x[1] * y[2] <= y[1] * x[2]
RAbs(x) == <<Abs(x[1]), x[2]>>

RECURSIVE RSum(_, _, _)
RSum(vals, lo, hi) ==
  IF lo > hi THEN RInt(0)
  ELSE IF lo = hi THEN vals[lo]
  ELSE LET mid == (lo + hi) \div 2
       IN  RAdd(RSum(vals, lo, mid), RSum(vals, mid + 1, hi))

\* the mean of a non-empty sequence of values
RMean(vals) == RScale(RSum(vals, 1, Len(vals)), 1, Len(vals))

(***************************************************************************)
(* Inputs.  A ping is [mmsi, time, pos, sog].  The inputs are generated    *)
(* from blocks: a block is n consecutive pings of one ship, Step seconds   *)
(* apart, starting in cell p0 and moving dp cells per ping.                *)
(*   cells 100..110 lie in the polygon of port 1 (locode "A"),             *)
(*   cells 200..210 in the polygon of port 2 (locode "B"),                 *)
(*   every other cell is open sea.                                         *)
(***************************************************************************)
Block(k) ==
  CASE k = "O" -> [n |-> 10, p0 |-> 120, dp |-> 5, sog |-> 10, dt |-> Step]  \* a run at sea
    [] k = "o" -> [n |-> 3,  p0 |-> 120, dp |-> 5, sog |-> 10, dt |-> Step]  \* a short run
    [] k = "A" -> [n |-> 2,  p0 |-> 100, dp |-> 0, sog |-> 0,  dt |-> Step]  \* a stay in A
    [] k = "B" -> [n |-> 2,  p0 |-> 200, dp |-> 0, sog |-> 0,  dt |-> Step]  \* a stay in B
    [] k = "T" -> [n |-> 2,  p0 |-> 100, dp |-> 1, sog |-> 6,  dt |-> Step]  \* 1 km in 600 s through A
    [] k = "S" -> [n |-> 1,  p0 |-> 100, dp |-> 0, sog |-> 0,  dt |-> Step]  \* one ping in A
    [] k = "Z" -> [n |-> 10, p0 |-> 150, dp |-> 0, sog |-> 10, dt |-> Step]  \* sea, constant position
    [] k = "L" -> [n |-> 10, p0 |-> 120, dp |-> 5, sog |-> 0,  dt |-> Step]  \* sea, speed 0 reported
    [] k = "X" -> [n |-> 10, p0 |-> 290, dp |-> 5, sog |-> 10, dt |-> Step]  \* sea, leaves cells 0..300
    [] k = "Q" -> [n |-> 10, p0 |-> 120, dp |-> 5, sog |-> 10, dt |-> 60]    \* a run of 9 minutes
    [] k = "H" -> [n |-> 10, p0 |-> 120, dp |-> 5, sog |-> 10, dt |-> 300]   \* a run of 45 minutes
    [] k = "E" -> [n |-> 11, p0 |-> 120, dp |-> 5, sog |-> 10, dt |-> Step]  \* a run of 11 pings
    [] k = "P" -> [n |-> 2,  p0 |-> 100, dp |-> 1, sog |-> 0,  dt |-> Step]  \* through A, speed 0 reported

Letters == {"O", "o", "A", "B", "T"}

BlockPings(ship, k, t) ==
  LET b == Block(k)
  IN  [j \in 1..b.n |-> [mmsi |-> ship, time |-> t + (j - 1) * b.dt,
                         pos |-> b.p0 + (j - 1) * b.dp, sog |-> b.sog]]

\* the pings of one ship: the blocks ks one after the other, from time t on
RECURSIVE ShipPings(_, _, _)
ShipPings(ship, ks, t) ==
  IF ks = <<>> THEN <<>>
  ELSE BlockPings(ship, Head(ks), t)
       \o ShipPings(ship, Tail(ks), t + Block(Head(ks)).n * Block(Head(ks)).dt)

RECURSIVE SeqsUpTo(_, _)
SeqsUpTo(S, n) ==
  IF n = 0 THEN {<<>>}
  ELSE LET prev == SeqsUpTo(S, n - 1)
       IN  prev \cup {Append(s, x) : s \in {q \in prev : Len(q) = n - 1}, x \in S}

\* the port table: locode and the cells the membership engine reports inside
Ports1 == << [locode |-> "A", cells |-> 100..110],
             [locode |-> "B", cells |-> 200..210] >>

(***************************************************************************)
(* create_routes                                                           *)
(***************************************************************************)
PingLess(p, q) == p.mmsi < q.mmsi \/ (p.mmsi = q.mmsi /\ p.time < q.time)

\* ais_data.copy().sort_values(by = ['mmsi','time'])
SortShips(ais) == SortSeq(ais, PingLess)

\* mask_from_polygons: per polygon, the indices of the points inside it
MaskFromPolygons(pos, polys) ==
  [k \in DOMAIN polys |-> {i \in DOMAIN pos : pos[i] \in polys[k]}]

\* A faulty choice: the last polygon that holds point i (keep = 'last')
PolygonIndexLast(masks, i) ==
  LET S == {k \in DOMAIN masks : i \in masks[k]}
  IN  IF S = {} THEN 0 ELSE SetMax(S)

\* explode + drop_duplicates('index'): the first polygon that holds point i, 0 for none
PolygonIndex(masks, i) ==
  LET S == {k \in DOMAIN masks : i \in masks[k]}
  IN  IF S = {} THEN 0 ELSE SetMin(S)

\* speed <= speed_limit for a dwell segment; a NaN or infinite speed compares False
KnotNum == 485964
KnotDen == 250
SpeedWithinLimit(dist, dt, speed_limit) ==
  IF dt = 0 THEN FALSE
  ELSE dist * KnotNum <= speed_limit * dt * KnotDen
\* the dwell segments of the in-port rows ip: the groups of
\* groupby(['mmsi', (locode != locode.shift()).cumsum()]), each the list of its
\* indices.  shift() is the previous row of in_port, whatever lies between the two
\* in ships; a group starts where the locode or the ship changes
DwellSegments(ships, loc, ip) ==
  LET m == Len(ip)
      starts == {j \in 1..m : j = 1 \/ ships[ip[j - 1]].mmsi # ships[ip[j]].mmsi
                                     \/ loc[ip[j - 1]] # loc[ip[j]]}
      st == SortedRange(starts, 1, m)
      end(g) == IF g = Len(st) THEN m ELSE st[g + 1] - 1
  IN  [g \in DOMAIN st |-> SubSeq(ip, st[g], end(g))]

\* index = speed <= speed_limit: the segment is a dock event (time_in_port)
IsDock(ships, seg, speed_limit) ==
  LET first == ships[seg[1]]
      lst == ships[seg[Len(seg)]]
  IN  SpeedWithinLimit(Abs(lst.pos - first.pos), lst.time - first.time, speed_limit)

\* time_out_port_idx: the indices of the segments that are not dock events
TimeOutPortIdx(ships, segs, speed_limit) ==
  UNION {Range(segs[g]) : g \in {h \in DOMAIN segs : ~IsDock(ships, segs[h], speed_limit)}}

\* the key of a group of routes.groupby(['mmsi', (index != index.shift() + 1).cumsum()])
GroupKey(mmsi, counter) == <<mmsi, counter>>

\* A faulty key: the break test lacks the + 1, so that every row is a break
RouteKeysEveryRow(ships, ridx) ==
  [r \in DOMAIN ridx |-> GroupKey(ships[ridx[r]].mmsi, r)]

\* the group keys of the rows of routes: the ship, and the number of breaks in
\* the contiguous index so far (the first row counts: shift() is NaN there)
RouteKeys(ships, ridx) ==
  LET brk == {r \in DOMAIN ridx : r = 1 \/ ridx[r] # ridx[r - 1] + 1}
  IN  [r \in DOMAIN ridx |->
         GroupKey(ships[ridx[r]].mmsi, Cardinality({q \in brk : q <= r}))]

KeyLess(a, b) == a[1] < b[1] \/ (a[1] = b[1] /\ a[2] < b[2])

\* A faulty numbering: the groups are numbered per ship, from 0 for each ship
GroupCodesPerShip(keys) ==
  LET K == Range(keys)
  IN  [r \in DOMAIN keys |->
         Cardinality({k \in K : k[1] = keys[r][1] /\ KeyLess(k, keys[r])})]

\* grouper.group_info[0]: the number of each row's group among the sorted keys
GroupCodes(keys) ==
  LET K == Range(keys)
  IN  [r \in DOMAIN keys |-> Cardinality({k \in K : KeyLess(k, keys[r])})]

\* A faulty filter: every id counts as having enough points
EnoughPointsAll(ids) == Range(ids)

\* point_count[point_count >= 10].index: the ids with enough points
EnoughPoints(ids) ==
  {g \in Range(ids) : Cardinality({q \in DOMAIN ids : ids[q] = g}) >= MinPoints}

\* route_port.groupby('mmsi')['id'].agg(['first','last']).values.flatten()
RemoveIdx(ships, ridx, ids, kept) ==
  UNION { LET R == {r \in kept : ships[ridx[r]].mmsi = s}
          IN  {ids[SetMin(R)], ids[SetMax(R)]}
        : s \in {ships[ridx[r]].mmsi : r \in kept} }

\* create_routes past its two checks: [err, routes], and times['index'],
\* time_out_port_idx, the columns index and id of the frame routes of line 352, the
\* indices of in_port and out_port and the locode column as they were when routes
\* was built
CreateRoutes(ais, prt, speed_limit) ==
  LET ships == SortShips(ais)
      n == Len(ships)
      masks == MaskFromPolygons([i \in 1..n |-> ships[i].pos],
                                [k \in DOMAIN prt |-> prt[k].cells])
      pidx == [i \in 1..n |-> PolygonIndex(masks, i)]
      loc == [i \in 1..n |-> IF pidx[i] = 0 THEN "" ELSE prt[pidx[i]].locode]
      all == [i \in 1..n |-> i]
      ip == SelectIdx(all, {i \in 1..n : pidx[i] # 0})
      op == SelectIdx(all, {i \in 1..n : pidx[i] = 0})
      segs == DwellSegments(ships, loc, ip)
      transit == TimeOutPortIdx(ships, segs, speed_limit)
      ridx == SelectIdx(all, {i \in 1..n : i \in Range(op) \/ i \in transit})
      ids == GroupCodes(RouteKeys(ships, ridx))
      big == EnoughPoints(ids)
      enough == {r \in DOMAIN ridx : ids[r] \in big}
      drop == RemoveIdx(ships, ridx, ids, enough)
      keptIds == big \ drop
      kept == {r \in enough : ids[r] \in keptIds}
      \* from_to: the first and the last index of each id
      first == [g \in keptIds |-> ridx[SetMin({q \in kept : ids[q] = g})]]
      lst == [g \in keptIds |-> ridx[SetMax({q \in kept : ids[q] = g})]]
      inPort(i) == i \in 1..n /\ pidx[i] # 0
      row(r) == [mmsi |-> ships[ridx[r]].mmsi, time |-> ships[ridx[r]].time,
                 pos |-> ships[ridx[r]].pos, sog |-> ships[ridx[r]].sog,
                 id |-> ids[r],
                 from_locode |-> loc[first[ids[r]] - 1],
                 to_locode |-> loc[lst[ids[r]] + 1],
                 to_time |-> ships[lst[ids[r]] + 1].time]
  IN  IF \E g \in keptIds : ~inPort(first[g] - 1) \/ ~inPort(lst[g] + 1)
      THEN [err |-> "KeyError", routes |-> <<>>, times |-> segs,
            time_out_port_idx |-> transit, index |-> ridx, id |-> ids,
            in_port |-> ip, out_port |-> op, locode |-> loc]
      ELSE [err |-> "ok",
            routes |-> SelectIdx([r \in DOMAIN ridx |-> IF r \in kept THEN row(r) ELSE <<>>],
                                 kept),
            times |-> segs, time_out_port_idx |-> transit, index |-> ridx, id |-> ids,
            in_port |-> ip, out_port |-> op, locode |-> loc]
(***************************************************************************)
(* remove_routes_outside_polygon                                           *)
(***************************************************************************)
\* the ids with a row whose position in the frame is not in masks[0][0]
OutsideIds(frame, inside) == {frame[i].id : i \in {j \in DOMAIN frame : j \notin inside}}

\* frame[~frame['id'].isin(remove_id)]
DropIds(frame, remove_id) ==
  SelectIdx(frame, {i \in DOMAIN frame : frame[i].id \notin remove_id})

\* A faulty removal: the points outside go, the rest of their voyage stays
RemoveOutsidePoints(frame, area) ==
  SelectIdx(frame, MaskFromPolygons([i \in DOMAIN frame |-> frame[i].pos], <<area>>)[1])

\* remove_routes_outside_polygon past its two checks
RemoveOutside(frame, area) ==
  LET masks == MaskFromPolygons([i \in DOMAIN frame |-> frame[i].pos], <<area>>)
  IN  DropIds(frame, OutsideIds(frame, masks[1]))

(***************************************************************************)
(* __interpolate                                                           *)
(***************************************************************************)
Ids(frame) == {frame[i].id : i \in DOMAIN frame}

\* the columns of a routes frame as exact values
RatRows(frame) ==
  [i \in DOMAIN frame |-> [frame[i] EXCEPT !.pos = RInt(@), !.sog = RInt(@)]]

\* id_locode: the port columns of an id (one combination per id)
IdLocode(frame, g) ==
  LET r == frame[CHOOSE i \in DOMAIN frame : frame[i].id = g]
  IN  [from_locode |-> r.from_locode, to_locode |-> r.to_locode, to_time |-> r.to_time]

\* mean(): the mean of the float columns of the rows B of one bin
BinMean(B) ==
  [pos |-> RMean([i \in DOMAIN B |-> B[i].pos]),
   sog |-> RMean([i \in DOMAIN B |-> B[i].sog])]

\* the value at x of the straight line through (a, va) and (b, vb)
Line(va, vb, a, b, x) == RAdd(va, RScale(RSub(vb, va), x - a, b - a))

\* the values on the line between the means ma of bin a and mb of bin b
LineValue(ma, mb, a, b, k) ==
  [pos |-> Line(ma.pos, mb.pos, a, b, k), sog |-> Line(ma.sog, mb.sog, a, b, k)]

\* interpolate(method = 'linear') over the bin means: an empty bin k lies between
\* two filled ones and takes the value on the line between them
BinValue(means, k) ==
  IF k \in DOMAIN means THEN means[k]
  ELSE LET a == SetMax({j \in DOMAIN means : j < k})
           b == SetMin({j \in DOMAIN means : j > k})
       IN  LineValue(means[a], means[b], a, b, k)

\* the row of the resampled group for the bin that starts at t
BinRow(t, v) == [time |-> t, pos |-> v.pos, sog |-> v.sog]

\* resample(interval).mean().interpolate('linear') of the rows R of one (id, mmsi)
\* group: the bins are interval_s wide and anchored at the midnight before the
\* group's first time
ResampleGroup(R, interval_s) ==
  LET tmin == SetMin({R[i].time : i \in DOMAIN R})
      tmax == SetMax({R[i].time : i \in DOMAIN R})
      origin == (tmin \div Day) * Day
      binOf(t) == (t - origin) \div interval_s
      filled == {binOf(R[i].time) : i \in DOMAIN R}
      means == [k \in filled |->
                  BinMean(SelectIdx(R, {i \in DOMAIN R : binOf(R[i].time) = k}))]
  IN  [j \in 1..(binOf(tmax) - binOf(tmin) + 1) |->
         BinRow(origin + (binOf(tmin) + j - 1) * interval_s,
                BinValue(means, binOf(tmin) + j - 1))]

\* a resampled row v of group (g, m) with the port columns meta of the id
GroupRow(g, m, v, meta) ==
  [id |-> g, mmsi |-> m, time |-> v.time, pos |-> v.pos, sog |-> v.sog,
   from_locode |-> meta.from_locode, to_locode |-> meta.to_locode,
   to_time |-> meta.to_time]

\* the resampled rows grid of group (g, m) with the port columns meta of the id
GroupRows(g, m, grid, meta) == [j \in DOMAIN grid |-> GroupRow(g, m, grid[j], meta)]

\* the sorted members of a non-empty or empty set of integers
SortedSet(S) == IF S = {} THEN <<>> ELSE SortedRange(S, SetMin(S), SetMax(S))

\* the groups of one id, by mmsi
InterpolateId(interval_s, frame, g, shipSeq) ==
  Concat([y \in DOMAIN shipSeq |->
            GroupRows(g, shipSeq[y],
                      ResampleGroup(SelectIdx(frame, {i \in DOMAIN frame :
                                        frame[i].id = g /\ frame[i].mmsi = shipSeq[y]}),
                                    interval_s),
                      IdLocode(frame, g))])

InterpolateIds(interval_s, frame, idSeq) ==
  Concat([x \in DOMAIN idSeq |->
            InterpolateId(interval_s, frame, idSeq[x],
                          SortedSet({frame[i].mmsi : i \in {j \in DOMAIN frame :
                                                       frame[j].id = idSeq[x]}}))])

\* __interpolate(interval_s, dataframe)
Interpolate(interval_s, frame) == InterpolateIds(interval_s, frame, SortedSet(Ids(frame)))

(***************************************************************************)
(* clean_data                                                              *)
(***************************************************************************)
\* the ids with two consecutive rows of the resampled frame (groupby('id').shift(1))
\* less than threshold km apart
StationaryIds(day, threshold) ==
  {day[i].id : i \in {j \in DOMAIN day :
      /\ j > 1
      /\ day[j - 1].id = day[j].id
      /\ RLess(RAbs(RSub(day[j].pos, day[j - 1].pos)), RInt(threshold))}}

\* the ids with a row whose sog <= speed
SlowIds(frame, speed) ==
  {frame[i].id : i \in {j \in DOMAIN frame : RLeq(frame[j].sog, speed)}}

\* A faulty pass: routes is filtered by row number, not by id
CleanPassByIndex(r, interp, remove_id) ==
  [routes |-> SelectIdx(r, {i \in DOMAIN r : i - 1 \notin remove_id}),
   interpolated_routes |-> DropIds(interp, remove_id)]

\* one pass of clean_data: the ids remove_id leave both frames
CleanPass(r, interp, remove_id) ==
  [routes |-> DropIds(r, remove_id), interpolated_routes |-> DropIds(interp, remove_id)]

\* A faulty second pass: the slow ids leave interpolated_routes only
CleanSlowInterpolated(pass1, speed) ==
  [routes |-> pass1.routes,
   interpolated_routes |-> DropIds(pass1.interpolated_routes,
                                   SlowIds(pass1.interpolated_routes, speed))]

\* the second pass, on the frames the first pass left
CleanSlow(pass1, speed) ==
  CleanPass(pass1.routes, pass1.interpolated_routes,
            SlowIds(pass1.interpolated_routes, speed))

\* A faulty clean_data: the slow ids are those of the frame resampled at interval_s
CleanDataSlowOfDay(r, interp, threshold, interval_s, speed) ==
  CleanPass(DropIds(r, StationaryIds(Interpolate(interval_s, interp), threshold)),
            DropIds(interp, StationaryIds(Interpolate(interval_s, interp), threshold)),
            SlowIds(Interpolate(interval_s, interp), speed)
              \ StationaryIds(Interpolate(interval_s, interp), threshold))

\* clean_data past its two checks: the new routes and interpolated_routes
CleanData(r, interp, threshold, interval_s, speed) ==
  CleanSlow(CleanPass(r, interp, StationaryIds(Interpolate(interval_s, interp), threshold)),
            speed)

(***************************************************************************)
(* create_waypoints and __waypoints                                        *)
(***************************************************************************)
\* z['f']: the bucket width in seconds of a voyage from tmin to tmax
BucketWidth(tmin, tmax, points) == (tmax - tmin) \div (points - 1)

\* z['s_group'] of a row at time t; f is not 0
BucketTime(t, tmin, f) ==
  LET t0 == (tmin \div Day) * Day
  IN  t0 + ((t - t0) \div f) * f

\* a row of waypoints: the bucket time t and the bucket means m, with the id
\* columns of the voyage's rows
WaypointRow(row, t, m) ==
  [id |-> row.id, mmsi |-> row.mmsi, time |-> t, pos |-> m.pos, sog |-> m.sog,
   from_locode |-> row.from_locode, to_locode |-> row.to_locode, to_time |-> row.to_time]

\* the waypoints of the rows R of one id: the mean of each bucket.  A width of 0
\* makes s_group NaN and time_group NaT, and groupby leaves those rows out
VoyageWaypoints(R, points) ==
  LET tmin == SetMin({R[i].time : i \in DOMAIN R})
      tmax == SetMax({R[i].time : i \in DOMAIN R})
      f == BucketWidth(tmin, tmax, points)
      grp(i) == BucketTime(R[i].time, tmin, f)
      firsts == SelectIdx([i \in DOMAIN R |-> grp(i)],
                          {i \in DOMAIN R : \A j \in 1..(i - 1) : grp(j) # grp(i)})
      tSeq == SortSeq(firsts, LAMBDA a, b : a < b)
  IN  IF f = 0 THEN <<>>
      ELSE [x \in DOMAIN tSeq |->
              WaypointRow(R[1], tSeq[x],
                          BinMean(SelectIdx(R, {i \in DOMAIN R : grp(i) = tSeq[x]})))]

WaypointsOfIds(route, points, idSeq) ==
  Concat([x \in DOMAIN idSeq |->
            VoyageWaypoints(SelectIdx(route, {i \in DOMAIN route : route[i].id = idSeq[x]}),
                            points)])

\* __waypoints(route, points)
Waypoints(route, points) == WaypointsOfIds(route, points, SortedSet(Ids(route)))

\* the ids of interpolated_routes with fewer than waypoint_amount rows
MissingPoints(interp, n) ==
  {g \in Ids(interp) : Cardinality({i \in DOMAIN interp : interp[i].id = g}) < n}

\* delta_time['length']: the whole minutes between the first and the last row of
\* id g in routes
TripMinutes(r, g) ==
  LET T == {r[i].time : i \in {j \in DOMAIN r : r[j].id = g}}
  IN  (SetMax(T) - SetMin(T)) \div 60

\* "Remove trips under 30 minutes"
MinTripMinutes == 30

\* int(smallest_time*60/self.waypoint_amount)
FinerInterval(smallest_time, n) == (smallest_time * 60) \div n

\* the ids that get a finer interpolation: fewer than n rows in
\* interpolated_routes, and a trip of at least 30 minutes in routes
LongIds(r, missing) == {g \in missing : TripMinutes(r, g) >= MinTripMinutes}

\* concat([new_inter, interpolated_local]) and __waypoints, for the interval found
WaypointsAt(interp, n, remove_id, long, interval) ==
  IF interval = 0 THEN [err |-> "ValueError", waypoints |-> <<>>]
  ELSE [err |-> "ok",
        waypoints |->
          Waypoints(Interpolate(interval, SelectIdx(interp, {i \in DOMAIN interp :
                                                       interp[i].id \in long}))
                      \o DropIds(interp, remove_id), n)]

\* the finer interpolation of the ids long of missing; int() of the NaN that min()
\* gives for no id raises ValueError
FinerWaypoints(r, interp, n, missing, long) ==
  IF long = {} THEN [err |-> "ValueError", waypoints |-> <<>>]
  ELSE WaypointsAt(interp, n, missing, long,
                   FinerInterval(SetMin({TripMinutes(r, g) : g \in long}), n))

\* create_waypoints past its two checks and the assignment of waypoint_amount:
\* [err, waypoints]
CreateWaypoints(r, interp, n) ==
  FinerWaypoints(r, interp, n, MissingPoints(interp, n) \cap Ids(r),
                 LongIds(r, MissingPoints(interp, n) \cap Ids(r)))

(***************************************************************************)
(* The state machine: one action per method of clean_ais.  last is the     *)
(* outcome of the latest call: the method, its arguments and the exception *)
(* it raised ("ok" for none).                                              *)
(***************************************************************************)
\* speed_limit : float = 3, and a laxer limit
SpeedLimits == {3, 10}

Outcome(op, args, err) == [op |-> op, args |-> args, err |-> err]

create_routes ==
  \E speed_limit \in SpeedLimits :
    IF ais_data = None \/ ports = None
    THEN /\ last' = Outcome("create_routes", <<speed_limit>>, "NotdefinedError")
         /\ UNCHANGED <<ais_data, ports, polygon, routes, interpolated_routes,
                        waypoints, waypoint_amount, database>>
    ELSE \E res \in {CreateRoutes(ais_data[1], ports[1], speed_limit)} :
             /\ last' = Outcome("create_routes", <<speed_limit>>, res.err)
             /\ routes' = IF res.err = "ok" THEN Some(res.routes) ELSE routes
             /\ UNCHANGED <<ais_data, ports, polygon, interpolated_routes,
                            waypoints, waypoint_amount, database>>

\* interval_s of interpolate_routes: the 10 minutes of clean_example.py, and an hour
Intervals == {600, 3600}

\* (threshold, interval_s, speed) of clean_data: the defaults 10 km, 24 h and
\* 0.5 knots, and the same with a window of 30 minutes
CleanArgs == {<<10, Day, <<1, 2>>>>, <<10, 1800, <<1, 2>>>>}

\* waypoint_amount of create_waypoints
WaypointAmounts == {4, 10}

remove_routes_outside_polygon ==
  IF polygon = None \/ routes = None
  THEN /\ last' = Outcome("remove_routes_outside_polygon", <<>>, "NotdefinedError")
       /\ UNCHANGED <<ais_data, ports, polygon, routes, interpolated_routes,
                      waypoints, waypoint_amount, database>>
  ELSE /\ routes' = Some(RemoveOutside(routes[1], polygon[1]))
       /\ last' = Outcome("remove_routes_outside_polygon", <<>>, "ok")
       /\ UNCHANGED <<ais_data, ports, polygon, interpolated_routes,
                      waypoints, waypoint_amount, database>>

interpolate_routes ==
  \E interval_s \in Intervals :
    IF routes = None
    THEN /\ last' = Outcome("interpolate_routes", <<interval_s>>, "NotdefinedError")
         /\ UNCHANGED <<ais_data, ports, polygon, routes, interpolated_routes,
                        waypoints, waypoint_amount, database>>
    ELSE /\ interpolated_routes' = Some(Interpolate(interval_s, RatRows(routes[1])))
         /\ last' = Outcome("interpolate_routes", <<interval_s>>, "ok")
         /\ UNCHANGED <<ais_data, ports, polygon, routes, waypoints, waypoint_amount, database>>

clean_data ==
  \E a \in CleanArgs :
    IF routes = None \/ interpolated_routes = None
    THEN /\ last' = Outcome("clean_data", a, "NotdefinedError")
         /\ UNCHANGED <<ais_data, ports, polygon, routes, interpolated_routes,
                        waypoints, waypoint_amount, database>>
    ELSE \E res \in {CleanData(routes[1], interpolated_routes[1], a[1], a[2], a[3])} :
             /\ routes' = Some(res.routes)
             /\ interpolated_routes' = Some(res.interpolated_routes)
             /\ last' = Outcome("clean_data", a, "ok")
             /\ UNCHANGED <<ais_data, ports, polygon, waypoints, waypoint_amount, database>>

create_waypoints ==
  \E n \in WaypointAmounts :
    IF interpolated_routes = None \/ routes = None
    THEN /\ last' = Outcome("create_waypoints", <<n>>, "NotdefinedError")
         /\ UNCHANGED <<ais_data, ports, polygon, routes, interpolated_routes,
                        waypoints, waypoint_amount, database>>
    ELSE \E res \in {CreateWaypoints(routes[1], interpolated_routes[1], n)} :
             /\ waypoint_amount' = Some(n)
             /\ waypoints' = IF res.err = "ok" THEN Some(res.waypoints) ELSE waypoints
             /\ last' = Outcome("create_waypoints", <<n>>, res.err)
             /\ UNCHANGED <<ais_data, ports, polygon, routes, interpolated_routes, database>>

\* A faulty save: no check that the artifact is there
SavePickleUnchecked(op, dataframe) ==
  /\ last' = Outcome(op, <<>>, "ok")
  /\ UNCHANGED <<ais_data, ports, polygon, routes, interpolated_routes,
                 waypoints, waypoint_amount, database>>

\* __save_pickle: the file is written outside the object
SavePickle(op, dataframe) ==
  /\ last' = Outcome(op, <<>>, IF dataframe = None THEN "NotdefinedError" ELSE "ok")
  /\ UNCHANGED <<ais_data, ports, polygon, routes, interpolated_routes,
                 waypoints, waypoint_amount, database>>

save_routes == SavePickle("save_routes", routes)

save_interpolated == SavePickle("save_interpolated", interpolated_routes)

save_waypoints == SavePickle("save_waypoints", waypoints)

(***************************************************************************)
(* The inputs of the segmentation checks: every single-ship sequence of at *)
(* most MaxBlocks blocks, and two-ship inputs.                             *)
(***************************************************************************)
OneShipInputs == {ShipPings(1, ks, 0) : ks \in SeqsUpTo(Letters, MaxBlocks)}

TwoShipBlocks ==
  { <<a, b>> : a \in {<<"O">>, <<"A">>, <<"O", "A", "O", "B", "O">>, <<"A", "O", "A">>},
               b \in {<<"O">>, <<"A">>, <<"O", "B", "O", "A", "O">>, <<"O", "A", "O">>} }

\* ship 2's file is read first: import_ais sorts by mmsi only after reading
TwoShipInputs == {ShipPings(2, x[2], 0) \o ShipPings(1, x[1], 0) : x \in TwoShipBlocks}

LongInputs ==
  { ShipPings(1, ks, 0) : ks \in { <<"O", "A", "O", "B", "O", "A", "O">>,
                                   <<"O", "A", "o", "B", "O", "A", "O", "B", "O">>,
                                   <<"O", "B", "O", "S", "O", "B", "O">>,
                                   <<"O", "B", "O", "T", "O", "B", "O">>,
                                   <<"O", "A", "O", "S", "O", "T", "O", "B", "O">> } }

RouteInputs == OneShipInputs \cup TwoShipInputs \cup LongInputs

InitRoutes ==
  /\ ais_data \in {Some(d) : d \in RouteInputs}
  /\ ports = Some(Ports1)
  /\ polygon = None
  /\ routes = None
  /\ interpolated_routes = None
  /\ waypoints = None
  /\ waypoint_amount = None
  /\ last = Outcome("init", <<>>, "ok")
  /\ _conn = None
  /\ _counter = 0

NextRoutes == create_routes

SpecRoutes == InitRoutes /\ [][NextRoutes]_vars
(***************************************************************************)
(* The pipeline: a fresh clean_ais object, the three imports of            *)
(* clean_example.py, each read once, and the stages in any order.          *)
(***************************************************************************)
\* the area of interest: the cells the membership engine reports inside it
Area1 == 0..300

PipelineBlocks ==
  { <<"O", "A", "O", "B", "X", "A", "O">>,
    <<"O", "A", "Z", "B", "L", "A", "O">>,
    <<"O", "A", "o", "B", "O", "A", "O">> }

\* the second input starts at 21:00, so that its first voyage runs over midnight
PipelineInputs ==
  {ShipPings(1, ks, 0) : ks \in PipelineBlocks}
    \cup {ShipPings(1, <<"O", "A", "Z", "B", "L", "A", "O">>, 75600)}

import_ais ==
  /\ ais_data = None
  /\ \E d \in PipelineInputs : ais_data' = Some(d)
  /\ last' = Outcome("import_ais", <<>>, "ok")
  /\ UNCHANGED <<ports, polygon, routes, interpolated_routes, waypoints, waypoint_amount, database>>

import_ports ==
  /\ ports = None
  /\ ports' = Some(Ports1)
  /\ last' = Outcome("import_ports", <<>>, "ok")
  /\ UNCHANGED <<ais_data, polygon, routes, interpolated_routes, waypoints, waypoint_amount, database>>

import_polygon ==
  /\ polygon = None
  /\ polygon' = Some(Area1)
  /\ last' = Outcome("import_polygon", <<>>, "ok")
  /\ UNCHANGED <<ais_data, ports, routes, interpolated_routes, waypoints, waypoint_amount, database>>

Init ==
  /\ ais_data = None
  /\ ports = None
  /\ polygon = None
  /\ routes = None
  /\ interpolated_routes = None
  /\ waypoints = None
  /\ waypoint_amount = None
  /\ last = Outcome("init", <<>>, "ok")
  /\ _conn = None
  /\ _counter = 0

Next ==
  \/ import_ais
  \/ import_ports
  \/ import_polygon
  \/ create_routes
  \/ remove_routes_outside_polygon
  \/ interpolate_routes
  \/ clean_data
  \/ create_waypoints
  \/ save_routes
  \/ save_interpolated
  \/ save_waypoints

Spec == Init /\ [][Next]_vars

(***************************************************************************)
(* The waypoint stages on their own: an object with a batch and the ports  *)
(* read, and create_routes, interpolate_routes and create_waypoints in any *)
(* order.  The batches start at different times of the day.                *)
(***************************************************************************)
\* the first ping of a batch, in seconds after midnight
StartTimes == {0, 53400, 75600}

WaypointBlocks ==
  { <<"O", "A", "E", "B", "H", "A", "O">>,
    <<"O", "A", "O", "B", "H", "A", "O">>,
    <<"O", "A", "E", "B", "O", "A", "O">> }

WaypointInputs == {ShipPings(1, ks, t) : ks \in WaypointBlocks, t \in StartTimes}

InitWaypoints ==
  /\ ais_data \in {Some(d) : d \in WaypointInputs}
  /\ ports = Some(Ports1)
  /\ polygon = None
  /\ routes = None
  /\ interpolated_routes = None
  /\ waypoints = None
  /\ waypoint_amount = None
  /\ last = Outcome("init", <<>>, "ok")
  /\ _conn = None
  /\ _counter = 0

NextWaypoints == create_routes \/ interpolate_routes \/ create_waypoints

SpecWaypoints == InitWaypoints /\ [][NextWaypoints]_vars

(***************************************************************************)
(* Properties.                                                             *)
(***************************************************************************)
\* the artifacts of the object: everything but the outcome of the latest call
artifacts == <<ais_data, ports, polygon, routes, interpolated_routes, waypoints,
               waypoint_amount>>

Stages == {"create_routes", "remove_routes_outside_polygon", "interpolate_routes",
           "clean_data", "create_waypoints", "save_routes", "save_interpolated",
           "save_waypoints"}

\* the upstream artifacts a stage needs
Required(op) ==
  CASE op = "create_routes" -> {ais_data, ports}
    [] op = "remove_routes_outside_polygon" -> {polygon, routes}
    [] op = "interpolate_routes" -> {routes}
    [] op = "clean_data" -> {routes, interpolated_routes}
    [] op = "create_waypoints" -> {routes, interpolated_routes}
    [] op = "save_routes" -> {routes}
    [] op = "save_interpolated" -> {interpolated_routes}
    [] op = "save_waypoints" -> {waypoints}

\* C1: a stage called while an artifact it needs is None raises NotdefinedError
\* and leaves every artifact as it was; called with all it needs, it does not
\* raise NotdefinedError.  The calls come in any order.
C1_NotdefinedError ==
  [][ last'.op \in Stages =>
        IF None \in Required(last'.op)
        THEN last'.err = "NotdefinedError" /\ UNCHANGED artifacts
        ELSE last'.err # "NotdefinedError" ]_vars

\* clean_data was called with routes there and interpolated_routes missing
C1_Witness ==
  /\ last.op = "clean_data"
  /\ last.err = "NotdefinedError"
  /\ routes # None
  /\ interpolated_routes = None

(***************************************************************************)
(* Voyage segmentation, read from the pings: the dwell segments, dock      *)
(* events and out-of-port runs of a batch P of pings in (mmsi, time)       *)
(* order, with Ports1 as the port table.                                   *)
(***************************************************************************)
\* the locode of the first port polygon that holds ping p, "" at sea
PortCode(p) ==
  LET S == {k \in DOMAIN Ports1 : p.pos \in Ports1[k].cells}
  IN  IF S = {} THEN "" ELSE Ports1[SetMin(S)].locode

\* the maximal runs of consecutive pings of one ship among the pings F
RunsOf(P, F) ==
  LET start(i) == i = 1 \/ i - 1 \notin F \/ P[i - 1].mmsi # P[i].mmsi
      stop(i) == i = Len(P) \/ i + 1 \notin F \/ P[i + 1].mmsi # P[i].mmsi
  IN  {s..(CHOOSE e \in s..Len(P) : stop(e) /\ \A k \in s..(e - 1) : ~stop(k))
        : s \in {i \in F : start(i)}}

\* the dwell segments: the maximal runs of consecutive pings of one ship in one port
DwellSegs(P) ==
  UNION {RunsOf(P, {i \in DOMAIN P : PortCode(P[i]) = c})
          : c \in {PortCode(P[i]) : i \in DOMAIN P} \ {""}}

\* the average speed from the first to the last ping of segment S exceeds limit
\* knots; with no time elapsed there is no speed to exceed it
Exceeds(P, S, limit) ==
  LET a == P[SetMin(S)]
      b == P[SetMax(S)]
  IN  /\ b.time - a.time > 0
      /\ Abs(b.pos - a.pos) * KnotNum > limit * (b.time - a.time) * KnotDen

\* the pings of the genuine dock events
DockedPings(P, limit) == UNION {S \in DwellSegs(P) : ~Exceeds(P, S, limit)}

\* the out-of-port runs: the maximal runs of consecutive pings of one ship that
\* are at sea or in transit
OutOfPortRuns(P, limit) == RunsOf(P, DOMAIN P \ DockedPings(P, limit))

\* the ping of P a row of routes was made from
PingIdx(P, row) == CHOOSE i \in DOMAIN P : P[i].mmsi = row.mmsi /\ P[i].time = row.time

\* the pings of voyage g of the frame R
Voyage(P, R, g) == {PingIdx(P, R[j]) : j \in {q \in DOMAIN R : R[q].id = g}}

\* create_routes has just built routes
RoutesBuilt == last.op = "create_routes" /\ last.err = "ok"

\* C2: every voyage of routes has, right before its first ping, a ping of the same
\* ship that is part of a genuine dock event, and from_locode is the port of that
\* ping; right after its last ping it has such a ping too, and to_locode and
\* to_time are the port and the time of that ping.
C2_DockEventPorts ==
  RoutesBuilt =>
    LET P == SortShips(ais_data[1])
        R == routes[1]
        D == DockedPings(P, last.args[1])
    IN  \A j \in DOMAIN R :
          LET V == Voyage(P, R, R[j].id)
              a == SetMin(V) - 1
              b == SetMax(V) + 1
          IN  /\ a \in D /\ P[a].mmsi = R[j].mmsi
              /\ R[j].from_locode = PortCode(P[a])
              /\ b \in D /\ P[b].mmsi = R[j].mmsi
              /\ R[j].to_locode = PortCode(P[b])
              /\ R[j].to_time = P[b].time

\* C3: the rows of routes with one id are pings of one ship, and they are one run
\* of consecutive pings: two voyages never share an id.
C3_UniqueIds ==
  RoutesBuilt =>
    LET P == SortShips(ais_data[1])
        R == routes[1]
    IN  \A g \in Ids(R) :
          LET V == Voyage(P, R, g)
          IN  /\ \A i \in V : P[i].mmsi = P[SetMin(V)].mmsi
              /\ V = SetMin(V)..SetMax(V)
              /\ \A j \in DOMAIN R : R[j].id = g => R[j].mmsi = P[SetMin(V)].mmsi

\* two ships have a voyage each in routes
C3_Witness ==
  /\ RoutesBuilt
  /\ \E j, k \in DOMAIN routes[1] : routes[1][j].mmsi # routes[1][k].mmsi

\* C4: the voyages of a ship in routes are its out-of-port runs of at least
\* MinPoints pings other than the first and the last of them: max(k - 2, 0) of k.
C4_FirstAndLastDropped ==
  RoutesBuilt =>
    LET P == SortShips(ais_data[1])
        R == routes[1]
        runs == OutOfPortRuns(P, last.args[1])
    IN  \A m \in {P[i].mmsi : i \in DOMAIN P} :
          LET big == {S \in runs : P[SetMin(S)].mmsi = m /\ Cardinality(S) >= MinPoints}
              inner == {S \in big : \E S1, S2 \in big :
                                      SetMin(S1) < SetMin(S) /\ SetMin(S) < SetMin(S2)}
              out == {Voyage(P, R, g) : g \in {R[j].id : j \in {q \in DOMAIN R : R[q].mmsi = m}}}
          IN  /\ out = inner
              /\ Cardinality(out) = IF Cardinality(big) >= 2 THEN Cardinality(big) - 2 ELSE 0

\* C7: a dwell segment of create_routes is in time_out_port_idx exactly when the
\* average speed from its first to its last ping exceeds speed_limit, and a ping
\* of any other dwell segment is no row of routes.
C7_TransitExactlyWhenFaster ==
  RoutesBuilt =>
    LET P == SortShips(ais_data[1])
        R == routes[1]
        res == CreateRoutes(ais_data[1], ports[1], last.args[1])
        dock == {g \in DOMAIN res.times : ~Exceeds(P, Range(res.times[g]), last.args[1])}
    IN  /\ \A g \in DOMAIN res.times :
             IF g \in dock THEN Range(res.times[g]) \cap res.time_out_port_idx = {}
             ELSE Range(res.times[g]) \subseteq res.time_out_port_idx
        /\ \A j \in DOMAIN R : \A g \in dock : PingIdx(P, R[j]) \notin Range(res.times[g])

\* the number of rows of the frame with id g
RowCount(frame, g) == Cardinality({j \in DOMAIN frame : frame[j].id = g})

\* C5: every voyage of routes has at least MinPoints rows, whichever stages have
\* run since create_routes.
C5_MinimumPoints ==
  routes # None => \A g \in Ids(routes[1]) : RowCount(routes[1], g) >= MinPoints

\* clean_data has run and left a voyage in routes
C5_Witness ==
  /\ last.op = "clean_data"
  /\ last.err = "ok"
  /\ routes[1] # <<>>

\* C6: remove_routes_outside_polygon removes the voyages with a point that is not
\* inside the polygon and no other; the rows of the voyages that stay are all
\* kept, in order, and lie inside.
C6_WholeVoyagesRemoved ==
  [][ (last'.op = "remove_routes_outside_polygon" /\ last'.err = "ok") =>
        LET before == routes[1]
            after == routes'[1]
            out == {before[j].id : j \in {q \in DOMAIN before :
                                            before[q].pos \notin polygon[1]}}
        IN  /\ Ids(after) = Ids(before) \ out
            /\ after = SelectIdx(before, {j \in DOMAIN before : before[j].id \notin out})
            /\ \A j \in DOMAIN after : after[j].pos \in polygon[1] ]_vars

\* of the two voyages create_routes built, one inside the area and one that
\* leaves it, remove_routes_outside_polygon has left one
C6_Witness ==
  /\ last.op = "remove_routes_outside_polygon"
  /\ last.err = "ok"
  /\ interpolated_routes = None
  /\ \E i \in DOMAIN ais_data[1] : ais_data[1][i].pos \notin polygon[1]
  /\ Cardinality(Ids(CreateRoutes(ais_data[1], ports[1], 3).routes)) = 2
  /\ Cardinality(Ids(routes[1])) = 1

\* C8: after create_waypoints no voyage has more than waypoint_amount waypoints,
\* and a voyage with exactly waypoint_amount rows in interpolated_routes has
\* exactly waypoint_amount waypoints.
C8_AtMostNWaypoints ==
  (last.op = "create_waypoints" /\ last.err = "ok") =>
    /\ \A g \in Ids(waypoints[1]) : RowCount(waypoints[1], g) <= waypoint_amount[1]
    /\ \A g \in Ids(interpolated_routes[1]) :
         RowCount(interpolated_routes[1], g) = waypoint_amount[1]
           => RowCount(waypoints[1], g) = waypoint_amount[1]

\* C9: clean_data removes, from routes and from interpolated_routes, every voyage
\* whose rows in interpolated_routes all have one position (the rows of the frame
\* resampled at interval_s, their means, then have that position too).
C9_ConstantPositionRemoved ==
  [][ (last'.op = "clean_data" /\ last'.err = "ok") =>
        LET interp == interpolated_routes[1]
        IN  \A g \in Ids(interp) :
              (\A i, j \in DOMAIN interp :
                  (interp[i].id = g /\ interp[j].id = g) => interp[i].pos = interp[j].pos)
                => /\ g \notin Ids(routes'[1])
                   /\ g \notin Ids(interpolated_routes'[1]) ]_vars

\* C10: clean_data removes one set of ids from routes and from
\* interpolated_routes, and only whole voyages: the rows of the other ids are all
\* kept, in order; two frames with the same ids before have the same ids after.
C10_SameIdsRemoved ==
  [][ (last'.op = "clean_data" /\ last'.err = "ok") =>
        LET gone == Ids(interpolated_routes[1]) \ Ids(interpolated_routes'[1])
        IN  /\ routes'[1] = SelectIdx(routes[1],
                              {j \in DOMAIN routes[1] : routes[1][j].id \notin gone})
            /\ interpolated_routes'[1] =
                 SelectIdx(interpolated_routes[1],
                           {j \in DOMAIN interpolated_routes[1] :
                              interpolated_routes[1][j].id \notin gone})
            /\ Ids(routes[1]) = Ids(interpolated_routes[1])
                 => Ids(routes'[1]) = Ids(interpolated_routes'[1]) ]_vars

\* clean_data has removed one of two voyages from both frames
C10_Witness ==
  /\ last.op = "clean_data"
  /\ last.err = "ok"
  /\ Cardinality(Ids(CreateRoutes(ais_data[1], ports[1], 3).routes)) = 2
  /\ Cardinality(Ids(routes[1])) = 1
  /\ Ids(interpolated_routes[1]) = Ids(routes[1])
  /\ \A i \in DOMAIN ais_data[1] : ais_data[1][i].pos \in Area1

(***************************************************************************)
(* find_centroid (src/modules/centroid.py), as create_routes applies it to *)
(* the polygon of a port.  A polygon is a sequence of vertices <<x, y>>    *)
(* with integer coordinates; the float arithmetic is exact on them.        *)
(***************************************************************************)
\* the largest coordinate of a vertex and the most vertices of a polygon
MaxCoord == 2
MaxVertices == 4

Polygons == UNION {[1..n -> (0..MaxCoord) \X (0..MaxCoord)] : n \in 1..MaxVertices}

\* the vertex after vertex i: polygon[(i + 1) % length]
NextVertex(poly, i) == poly[(i % Len(poly)) + 1]

\* area_polygon of vertex i: (x_first * y_last) - (x_last * y_first)
AreaTerm(poly, i) ==
  poly[i][1] * NextVertex(poly, i)[2] - NextVertex(poly, i)[1] * poly[i][2]

\* the sum of the numbers of a sequence (signed_area += ..., x += ..., y += ...)
RECURSIVE SumSeq(_)
SumSeq(s) == IF s = <<>> THEN 0 ELSE Head(s) + SumSeq(Tail(s))

\* x += (x_first + x_last) * area_polygon, and the same for y
XTerm(poly, i) == (poly[i][1] + NextVertex(poly, i)[1]) * AreaTerm(poly, i)
YTerm(poly, i) == (poly[i][2] + NextVertex(poly, i)[2]) * AreaTerm(poly, i)

\* a float quotient num / den of numpy: a division by zero gives nan for 0 / 0
\* and an infinity otherwise, and raises nothing
FloatDiv(num, den) ==
  IF den # 0 THEN [kind |-> "finite", value |-> Rat(num, den)]
  ELSE IF num = 0 THEN [kind |-> "nan", value |-> <<0, 0>>]
  ELSE [kind |-> "inf", value |-> <<IF num > 0 THEN 1 ELSE -1, 0>>]

\* find_centroid: signed_area is half the sum of the area terms, so that
\* 6 * signed_area is three times the sum
FindCentroid(poly) ==
  LET twice == SumSeq([i \in DOMAIN poly |-> AreaTerm(poly, i)])
  IN  [err |-> "ok",
       x |-> FloatDiv(SumSeq([i \in DOMAIN poly |-> XTerm(poly, i)]), 3 * twice),
       y |-> FloatDiv(SumSeq([i \in DOMAIN poly |-> YTerm(poly, i)]), 3 * twice)]

\* centroid = in_port['polygon'].apply(find_centroid): one call, on the polygon
\* of a port; last also holds the value returned
find_centroid ==
  /\ ports # None
  /\ \E k \in DOMAIN ports[1] :
       \E res \in {FindCentroid(ports[1][k].polygon)} :
         last' = [op |-> "find_centroid", args |-> <<ports[1][k].polygon>>,
                  err |-> res.err, value |-> <<res.x, res.y>>]
  /\ UNCHANGED <<ais_data, ports, polygon, routes, interpolated_routes,
                 waypoints, waypoint_amount, database>>

InitCentroid ==
  /\ ais_data = None
  /\ ports \in {Some(<<[locode |-> "A", polygon |-> poly]>>) : poly \in Polygons}
  /\ polygon = None
  /\ routes = None
  /\ interpolated_routes = None
  /\ waypoints = None
  /\ waypoint_amount = None
  /\ last = Outcome("init", <<>>, "ok")
  /\ _conn = None
  /\ _counter = 0

NextCentroid == find_centroid

SpecCentroid == InitCentroid /\ [][NextCentroid]_vars

\* twice the signed area of a polygon
SignedArea2(poly) == SumSeq([i \in DOMAIN poly |-> AreaTerm(poly, i)])

\* C11: find_centroid on a polygon of signed area zero ends in an error, and the
\* coordinates of a centroid it returns are finite numbers.
C11_DegenerateReported ==
  last.op = "find_centroid" =>
    /\ SignedArea2(last.args[1]) = 0 => last.err # "ok"
    /\ last.err = "ok" => \A c \in {1, 2} : last.value[c].kind = "finite"

(***************************************************************************)
(* import_routes and import_interpolated: the frame of a pickle file       *)
(* replaces the artifact, whatever the object holds.                       *)
(***************************************************************************)
\* import_routes, for the pickle files F
ImportRoutes(F) ==
  /\ \E f \in F : routes' = Some(f)
  /\ last' = Outcome("import_routes", <<>>, "ok")
  /\ UNCHANGED <<ais_data, ports, polygon, interpolated_routes, waypoints, waypoint_amount, database>>

\* import_interpolated, for the pickle files F
ImportInterpolated(F) ==
  /\ \E f \in F : interpolated_routes' = Some(f)
  /\ last' = Outcome("import_interpolated", <<>>, "ok")
  /\ UNCHANGED <<ais_data, ports, polygon, routes, waypoints, waypoint_amount, database>>

(***************************************************************************)
(* Resampling on its own: a routes file with one voyage of two samples,    *)
(* k intervals apart, is read once and interpolate_routes is called.       *)
(***************************************************************************)
\* the most intervals between the two samples
MaxK == 3

\* the time of the first sample, in seconds after midnight: on the grid of
\* both intervals, off it, and shortly before the next midnight
FirstTimes == {0, 3600, 100, 900, 4000, 86100}

\* the positions of the two samples
TwoPositions == {<<120, 140>>, <<150, 150>>, <<170, 121>>}

\* one voyage of two samples at t0 and t0 + k * interval_s
TwoPointRoutes(t0, k, interval_s, pp) ==
  [j \in 1..2 |-> [mmsi |-> 1, time |-> t0 + (j - 1) * k * interval_s, pos |-> pp[j],
                   sog |-> 10, id |-> 1, from_locode |-> "A", to_locode |-> "B",
                   to_time |-> t0 + k * interval_s + Step]]

TwoPointFiles ==
  {TwoPointRoutes(t0, k, i, pp) : t0 \in FirstTimes, k \in 1..MaxK, i \in Intervals,
                                  pp \in TwoPositions}

import_routes_two_point == routes = None /\ ImportRoutes(TwoPointFiles)

NextResample == import_routes_two_point \/ interpolate_routes

SpecResample == Init /\ [][NextResample]_vars

\* interpolate_routes has resampled a voyage of two samples k intervals apart
TwoSamplesResampled ==
  /\ last.op = "interpolate_routes"
  /\ last.err = "ok"
  /\ Len(routes[1]) = 2
  /\ (routes[1][2].time - routes[1][1].time) % last.args[1] = 0

\* C12: a voyage of two samples at t0 and t0 + k * I, resampled at interval I, has
\* k + 1 rows, at the times t0, t0 + I, ..., t0 + k * I, each with the position
\* and speed on the straight line between the two samples.
C12_GridFromFirstSample ==
  TwoSamplesResampled =>
    LET I == last.args[1]
        a == routes[1][1]
        b == routes[1][2]
        k == (b.time - a.time) \div I
        rows == interpolated_routes[1]
    IN  /\ Len(rows) = k + 1
        /\ \A j \in 1..(k + 1) :
             /\ j \in DOMAIN rows
             /\ rows[j].time = a.time + (j - 1) * I
             /\ rows[j].pos = Line(RInt(a.pos), RInt(b.pos), 0, k, j - 1)
             /\ rows[j].sog = Line(RInt(a.sog), RInt(b.sog), 0, k, j - 1)

(***************************************************************************)
(* Frame of the stages.                                                    *)
(***************************************************************************)
\* the stages that follow create_routes
LaterStages == {"remove_routes_outside_polygon", "interpolate_routes", "clean_data",
                "create_waypoints"}

\* C13: a stage after create_routes only removes whole voyages from routes: the
\* rows of the ids that stay are the rows they were, in order, and no id is new;
\* interpolate_routes and create_waypoints leave routes as it is; no stage
\* changes ais_data.
C13_RoutesOnlyFiltered ==
  [][ /\ last'.op \in Stages => ais_data' = ais_data
      /\ (last'.op \in LaterStages /\ routes # None) =>
           /\ routes' # None
           /\ Ids(routes'[1]) \subseteq Ids(routes[1])
           /\ routes'[1] = SelectIdx(routes[1], {j \in DOMAIN routes[1] :
                                                   routes[1][j].id \in Ids(routes'[1])})
      /\ last'.op \in {"interpolate_routes", "create_waypoints"} => routes' = routes ]_vars

\* waypoints were made after a stage had removed one of two voyages from routes
C13_Witness ==
  /\ last.op = "create_waypoints"
  /\ last.err = "ok"
  /\ waypoints # None
  /\ Cardinality(Ids(routes[1])) = 1
  /\ \E limit \in SpeedLimits :
       Cardinality(Ids(CreateRoutes(ais_data[1], ports[1], limit).routes)) = 2

\* C14: the dwell segments create_routes forms are the maximal runs of consecutive
\* pings of one ship in one port: two stays in a port with pings of the ship
\* outside it in between are two segments.
C14_DwellSegmentsContiguous ==
  RoutesBuilt =>
    LET P == SortShips(ais_data[1])
        res == CreateRoutes(ais_data[1], ports[1], last.args[1])
    IN  {Range(res.times[g]) : g \in DOMAIN res.times} = DwellSegs(P)

CleanBlocks ==
  { <<"O", "B", "O", "P", "O", "B", "O", "B", "O">>,
    <<"O", "A", "L", "B", "O", "A", "O">>,
    <<"O", "A", "O", "B", "Z", "A", "O">> }

CleanInputs == {ShipPings(1, ks, t) : ks \in CleanBlocks, t \in {0, 75600}}

InitClean ==
  /\ ais_data \in {Some(d) : d \in CleanInputs}
  /\ ports = Some(Ports1)
  /\ polygon = None
  /\ routes = None
  /\ interpolated_routes = None
  /\ waypoints = None
  /\ waypoint_amount = None
  /\ last = Outcome("init", <<>>, "ok")
  /\ _conn = None
  /\ _counter = 0

NextClean == create_routes \/ interpolate_routes \/ clean_data

SpecClean == InitClean /\ [][NextClean]_vars

\* C16: clean_data removes, from routes and from interpolated_routes, every voyage
\* with a row of sog <= speed in the frame resampled at interval_s, and leaves no
\* row of sog <= speed in interpolated_routes.
C16_SlowVoyagesRemoved ==
  [][ (last'.op = "clean_data" /\ last'.err = "ok") =>
        LET speed == last'.args[3]
            day == Interpolate(last'.args[2], interpolated_routes[1])
        IN  /\ \A g \in SlowIds(day, speed) :
                  g \notin Ids(routes'[1]) /\ g \notin Ids(interpolated_routes'[1])
            /\ \A j \in DOMAIN interpolated_routes'[1] :
                  ~RLeq(interpolated_routes'[1][j].sog, speed) ]_vars

\* clean_data has removed a voyage that reports speed 0 on some of its pings and
\* a higher speed on others, and has left another voyage
C16_Witness ==
  /\ last.op = "clean_data"
  /\ last.err = "ok"
  /\ interpolated_routes[1] # <<>>
  /\ \E limit \in SpeedLimits :
       LET before == CreateRoutes(ais_data[1], ports[1], limit).routes
       IN  \E g \in Ids(before) \ Ids(routes[1]) :
             /\ \E j \in DOMAIN before : before[j].id = g /\ before[j].sog = 0
             /\ \E j \in DOMAIN before : before[j].id = g /\ before[j].sog > 0

(***************************************************************************)
(* The finer interpolation of create_waypoints, read from the state after  *)
(* a call that raised nothing.                                             *)
(***************************************************************************)
WaypointsBuilt == last.op = "create_waypoints" /\ last.err = "ok"

\* the short voyages: fewer than waypoint_amount rows in interpolated_routes
ShortIds == MissingPoints(interpolated_routes[1], waypoint_amount[1]) \cap Ids(routes[1])

\* the short voyages that are kept: a trip of at least 30 minutes
RetainedIds == LongIds(routes[1], ShortIds)

\* the interval of the finer interpolation
UsedInterval ==
  FinerInterval(SetMin({TripMinutes(routes[1], g) : g \in RetainedIds}), waypoint_amount[1])

\* the rows of interpolated_routes of the retained short voyages, resampled at
\* the finer interval
FinerFrame ==
  Interpolate(UsedInterval,
              SelectIdx(interpolated_routes[1],
                        {i \in DOMAIN interpolated_routes[1] :
                           interpolated_routes[1][i].id \in RetainedIds}))

\* C17: the finer interval is the smallest duration of a retained short voyage
\* divided by waypoint_amount - 1 (in whole seconds), and every retained short
\* voyage has at least waypoint_amount rows when resampled at it.
C17_FinerInterval ==
  WaypointsBuilt =>
    LET n == waypoint_amount[1]
        smallest == 60 * SetMin({TripMinutes(routes[1], g) : g \in RetainedIds})
    IN  /\ UsedInterval = smallest \div (n - 1)
        /\ \A g \in RetainedIds : RowCount(FinerFrame, g) >= n

\* the rows of the frame with id g
RowsOf(frame, g) == SelectIdx(frame, {i \in DOMAIN frame : frame[i].id = g})

\* C18: the voyages with waypoints are those with at least waypoint_amount rows in
\* interpolated_routes and the shorter ones with a trip of at least 30 minutes;
\* the waypoints of a voyage are made from one frame, the finer one for a short
\* voyage and interpolated_routes for the others.
C18_WaypointVoyages ==
  WaypointsBuilt =>
    LET n == waypoint_amount[1]
        interp == interpolated_routes[1]
        enough == {g \in Ids(interp) : RowCount(interp, g) >= n}
    IN  /\ Ids(waypoints[1]) = enough \cup RetainedIds
        /\ \A g \in Ids(waypoints[1]) :
             RowsOf(waypoints[1], g) =
               VoyageWaypoints(RowsOf(IF g \in RetainedIds THEN FinerFrame ELSE interp, g), n)

(***************************************************************************)
(* create_routes with port polygons that overlap.                          *)
(***************************************************************************)
\* longest block sequence of the single-ship inputs of this specification
MaxPortBlocks == 3

\* a port C that reaches into port A, after it in the table, and a port C that
\* lies around port A, before it
PortsOverlap == << [locode |-> "A", cells |-> 100..110],
                   [locode |-> "C", cells |-> 95..105],
                   [locode |-> "B", cells |-> 200..210] >>

PortsNested == << [locode |-> "C", cells |-> 90..115],
                  [locode |-> "A", cells |-> 100..110],
                  [locode |-> "B", cells |-> 200..210] >>

PortInputs ==
  {ShipPings(1, ks, 0) : ks \in SeqsUpTo(Letters, MaxPortBlocks)}
    \cup TwoShipInputs \cup LongInputs

InitPorts ==
  /\ ais_data \in {Some(d) : d \in PortInputs}
  /\ ports \in {Some(Ports1), Some(PortsOverlap), Some(PortsNested)}
  /\ polygon = None
  /\ routes = None
  /\ interpolated_routes = None
  /\ waypoints = None
  /\ waypoint_amount = None
  /\ last = Outcome("init", <<>>, "ok")
  /\ _conn = None
  /\ _counter = 0

NextPorts == create_routes

SpecPorts == InitPorts /\ [][NextPorts]_vars

\* the ports whose polygon holds ping p, by their row in the port table
Holders(prt, p) == {k \in DOMAIN prt : p.pos \in prt[k].cells}

\* C19: every ping is a row of in_port or of out_port and of one only; a ping in
\* no port polygon is in out_port, and a ping in one or more is in in_port with
\* the locode of the first of them in the port table.
C19_PingsPartitioned ==
  RoutesBuilt =>
    LET P == SortShips(ais_data[1])
        res == CreateRoutes(ais_data[1], ports[1], last.args[1])
    IN  /\ Range(res.in_port) \cup Range(res.out_port) = DOMAIN P
        /\ Range(res.in_port) \cap Range(res.out_port) = {}
        /\ \A i \in DOMAIN P :
             IF Holders(ports[1], P[i]) = {}
             THEN i \in Range(res.out_port)
             ELSE /\ i \in Range(res.in_port)
                  /\ res.locode[i] = ports[1][SetMin(Holders(ports[1], P[i]))].locode

\* routes were built from a batch with a ping in two port polygons and a ping in none
C19_Witness ==
  /\ RoutesBuilt
  /\ routes[1] # <<>>
  /\ \E i \in DOMAIN ais_data[1] : Cardinality(Holders(ports[1], ais_data[1][i])) = 2
  /\ \E i \in DOMAIN ais_data[1] : Holders(ports[1], ais_data[1][i]) = {}

\* C20: whatever stages have run, every voyage id of interpolated_routes is an id
\* of routes.
C20_InterpolatedIdsInRoutes ==
  (routes # None /\ interpolated_routes # None) =>
    Ids(interpolated_routes[1]) \subseteq Ids(routes[1])

\* C21: a call of create_waypoints with routes and interpolated_routes defined
\* raises nothing and leaves waypoints set, whether or not a voyage is short of
\* points.
C21_CreateWaypointsCompletes ==
  (last.op = "create_waypoints" /\ routes # None /\ interpolated_routes # None) =>
    (last.err = "ok" /\ waypoints # None)

(***************************************************************************)
(* Database (modules/database.py).  _conn is None or the connection object *)
(* psycopg2.connect returned, of which only the closed attribute matters;  *)
(* _counter numbers the cursors.  The server's behaviour is an input: the  *)
(* connection is accepted or refused, and a query passes or fails in       *)
(* execute or in fetchall.                                                 *)
(***************************************************************************)
\* the cursors one Database object hands out here
MaxCursors == 20

\* psycopg2.connect(...): a new open connection, or DatabaseError
Servers == {"up", "down"}

\* the step of execute_sql at which the server makes the query fail
QueryFailures == {"none", "execute", "fetch"}

\* what fetchall returns
ResultSets == {<<>>, <<"row">>}

\* Database.disconnect: close() on the connection, which stays in _conn
Disconnect(conn) == IF conn = None THEN None ELSE Some([closed |-> TRUE])

\* Database.connect: [err, _conn]; nothing is done when _conn holds a connection,
\* open or closed
Connect(conn, server) ==
  IF conn # None THEN [err |-> "ok", _conn |-> conn]
  ELSE IF server = "up" THEN [err |-> "ok", _conn |-> Some([closed |-> FALSE])]
       ELSE [err |-> "ConnectionDBError", _conn |-> Disconnect(conn)]

\* Database.__cursor_counter
CursorCounter(counter) == counter + 1

\* Database.execute_sql: [err, value, _conn, _counter].  cursor() on a closed
\* connection raises before cur is bound, so the handler's cur.closed raises
\* UnboundLocalError and neither disconnect nor ConnectionDBError is reached
ExecuteSql(conn, counter, fails, rows) ==
  IF conn = None
  THEN [err |-> "ok", value |-> None, _conn |-> conn, _counter |-> counter]
  ELSE IF conn[1].closed
       THEN [err |-> "UnboundLocalError", value |-> None, _conn |-> conn,
             _counter |-> CursorCounter(counter)]
       ELSE IF fails = "none"
            THEN [err |-> "ok", value |-> Some(rows), _conn |-> conn,
                  _counter |-> CursorCounter(counter)]
            ELSE [err |-> "ConnectionDBError", value |-> None,
                  _conn |-> Disconnect(conn), _counter |-> CursorCounter(counter)]

connect ==
  \E server \in Servers :
    \E res \in {Connect(_conn, server)} :
      /\ _conn' = res._conn
      /\ last' = Outcome("connect", <<>>, res.err)
      /\ UNCHANGED <<ais_data, ports, polygon, routes, interpolated_routes,
                     waypoints, waypoint_amount, _counter>>

disconnect ==
  /\ _conn' = Disconnect(_conn)
  /\ last' = Outcome("disconnect", <<>>, "ok")
  /\ UNCHANGED <<ais_data, ports, polygon, routes, interpolated_routes,
                 waypoints, waypoint_amount, _counter>>

execute_sql ==
  /\ _counter < MaxCursors
  /\ \E fails \in QueryFailures, rows \in ResultSets :
       \E res \in {ExecuteSql(_conn, _counter, fails, rows)} :
         /\ _conn' = res._conn
         /\ _counter' = res._counter
         /\ last' = [op |-> "execute_sql", args |-> <<"sql">>, err |-> res.err,
                     value |-> res.value]
  /\ UNCHANGED <<ais_data, ports, polygon, routes, interpolated_routes,
                 waypoints, waypoint_amount>>

\* Database.__init__, and no clean_ais artifact
InitDatabase ==
  /\ ais_data = None
  /\ ports = None
  /\ polygon = None
  /\ routes = None
  /\ interpolated_routes = None
  /\ waypoints = None
  /\ waypoint_amount = None
  /\ last = Outcome("init", <<>>, "ok")
  /\ _conn = None
  /\ _counter = 0

NextDatabase == connect \/ disconnect \/ execute_sql

SpecDatabase == InitDatabase /\ [][NextDatabase]_vars

\* C22: a call of execute_sql that fails raises ConnectionDBError and leaves the
\* connection closed; execute_sql with no connection ever made returns None and
\* raises nothing; and a connect that returns normally, after a disconnect as
\* well, leaves an open connection for the next execute_sql.
C22_DatabaseFailures ==
  /\ (last.op = "execute_sql" /\ last.err # "ok") =>
       (last.err = "ConnectionDBError" /\ _conn # None /\ _conn[1].closed)
  /\ (last.op = "execute_sql" /\ _conn = None) =>
       (last.err = "ok" /\ last.value = None)
  /\ (last.op = "connect" /\ last.err = "ok") =>
       (_conn # None /\ ~_conn[1].closed)
====
